---- MODULE Spec2Model ----
(***************************************************************************)
(* wlsunset (src/main.c): the day/night colour temperature scheduler, its  *)
(* output registry and its main loop, as a state machine.                   *)
(*                                                                          *)
(* Times are seconds since the epoch (time_t).  Doubles are modelled as    *)
(* exact rationals (numerator, denominator); a conversion to int truncates *)
(* toward zero as the C conversion does.                                    *)
(***************************************************************************)
EXTENDS Integers, Sequences, FiniteSets, TLC

\* ---------------------------------------------------------------- constants

\* main.c:270  static int anim_kelvin_step = 25;
anim_kelvin_step == 25

\* main.c:277  the length of a day in recalc_stops
SecondsPerDay == 86400

\* main.c:246  UINT16_MAX, the largest level of a ramp entry
UINT16_MAX == 65535

\* exit statuses: return -1 from main (seen as 255), EXIT_FAILURE, EXIT_SUCCESS,
\* and the status of a process killed by abort() (128 + SIGABRT)
EXIT_MINUS1 == 255
EXIT_FAILURE == 1
EXIT_SUCCESS == 0
EXIT_ABORT == 134

\* main.c:427  double gamma = 1.0;  (in tenths)
DefaultGamma == 10

\* ------------------------------------------------------------------- bounds

\* timer expiries explored in one run
MaxTicks == 3

\* set_temperature pushes explored by the shared-buffer specification, and the
\* ramp size of its output
MaxPushes == 3
ShmRampSize == 2

\* the first day of the runs (midnight UTC), and the instants the program is started at
Day0 == 100 * SecondsPerDay
StartTimes == { Day0 + 4 * 3600, Day0 + 18 * 3600 + 1800, Day0 + 23 * 3600 }

\* how late after its deadline the timer signal is seen (seconds)
Lateness == { 0, 1800 }

\* the output globals the compositor announces, and the ramp sizes it advertises
OutputIds == { 1, 2 }

\* the name of a global that is no output
OtherName == 9
RampSizes == { 2, 3 }

\* the configurations given on the command line (-T, -t, -d; duration -1 is
\* the default of main.c:422, "no override")
Configs ==
  { [high_temp |-> 6500, low_temp |-> 4000, duration |-> 3600],
    [high_temp |-> 6500, low_temp |-> 4000, duration |-> -1],
    [high_temp |-> 4000, low_temp |-> 6500, duration |-> 3600],
    [high_temp |-> 6500, low_temp |-> 4000, duration |-> 60],
    [high_temp |-> 5000, low_temp |-> 5000, duration |-> 3600] }

\* ------------------------------------------------------------ integer helpers

Abs(x) == IF x < 0 THEN -x ELSE x

\* C integer division: the quotient truncated toward zero (b # 0)
TruncDiv(a, b) ==
  IF (a >= 0) = (b > 0) THEN Abs(a) \div Abs(b) ELSE -(Abs(a) \div Abs(b))

\* C remainder for a non-negative time_t
CMod(a, b) == a - b * TruncDiv(a, b)

\* ----------------------------------------------------- color_math (not in src/)

\* clamp of color_math.h: a fraction num/den (den > 0) brought into [0, 1]
clamp(num, den) ==
  IF num < 0 THEN [num |-> 0, den |-> 1]
  ELSE IF num > den THEN [num |-> 1, den |-> 1]
  ELSE [num |-> num, den |-> den]

\* calc_sun of color_math.c: the day's dawn, sunrise, sunset and dusk as offsets
\* from that day's midnight (at the default latitude/longitude 0/0), moving by a
\* quarter of an hour from one day to the next
sun_shift(day) == 900 * ((day \div SecondsPerDay) % 2)

calc_sun(day) ==
  [dawn |-> 6 * 3600 + sun_shift(day) - 1800, sunrise |-> 6 * 3600 + sun_shift(day),
   sunset |-> 18 * 3600 + sun_shift(day), dusk |-> 18 * 3600 + sun_shift(day) + 1800]

\* calc_whitepoint of color_math.c: the white point weights of a temperature,
\* in thousandths, each in [0, 1000]
kelvin_in_domain(temp) ==
  IF temp < 1000 THEN 1000 ELSE IF temp > 25000 THEN 25000 ELSE temp

whitepoint_of(t) ==
  IF t <= 6500
    THEN [rw |-> 1000, gw |-> 1000 - (6500 - t) \div 10, bw |-> 1000 - (6500 - t) \div 6]
    ELSE [rw |-> 1000 - (t - 6500) \div 40, gw |-> 1000 - (t - 6500) \div 60, bw |-> 1000]

calc_whitepoint(temp) == whitepoint_of(kelvin_in_domain(temp))

\* ------------------------------------------------------------- ScheduleState

ZeroSun == [dawn |-> 0, sunrise |-> 0, sunset |-> 0, dusk |-> 0]

\* the day recalc_stops computes for (main.c:277-280)
recalc_day(sun, now) ==
  IF now - CMod(now, SecondsPerDay) < sun.dusk
    THEN now - CMod(now, SecondsPerDay) + SecondsPerDay
    ELSE now - CMod(now, SecondsPerDay)

\* the stops of that day (main.c:282-294): calc_sun, the duration override,
\* and the offsets made absolute
day_stops(cfg, cs, day) ==
  [dawn |-> day + (IF cfg.duration # -1 THEN cs.sunrise - cfg.duration ELSE cs.dawn),
   sunrise |-> day + cs.sunrise,
   sunset |-> day + cs.sunset,
   dusk |-> day + (IF cfg.duration # -1 THEN cs.sunset + cfg.duration ELSE cs.dusk)]

\* the step times and the outcome of the assertion (main.c:295-299) for stops s
recalc_steps(s, dawn_step, dusk_step, temp_diff, now) ==
  IF ~(s.dusk > now)
  THEN [sun |-> s, dawn_step_time |-> dawn_step, dusk_step_time |-> dusk_step,
        abort |-> "recalc_stops"]
  ELSE IF temp_diff = 0
  THEN [sun |-> s, dawn_step_time |-> dawn_step, dusk_step_time |-> dusk_step,
        abort |-> "div_zero"]
  ELSE [sun |-> s,
        dawn_step_time |-> TruncDiv((s.sunrise - s.dawn) * anim_kelvin_step, temp_diff),
        dusk_step_time |-> TruncDiv((s.dusk - s.sunset) * anim_kelvin_step, temp_diff),
        abort |-> ""]

recalc_stops_eager(sun, dawn_step, dusk_step, cfg, now) ==
  recalc_steps(day_stops(cfg, calc_sun(recalc_day(sun, now)), recalc_day(sun, now)),
               dawn_step, dusk_step, cfg.high_temp - cfg.low_temp, now)

\* recalc_stops (main.c:272-299): the schedule after the call.  abort names the
\* assertion that failed ("" when the call returned; "div_zero" is the division
\* by a zero temp_diff, which main's validation excludes).
recalc_stops(sun, dawn_step, dusk_step, cfg, now) ==
  IF now < sun.dusk
  THEN [sun |-> sun, dawn_step_time |-> dawn_step, dusk_step_time |-> dusk_step,
        abort |-> ""]
  ELSE recalc_steps(day_stops(cfg, calc_sun(recalc_day(sun, now)), recalc_day(sun, now)),
                    dawn_step, dusk_step, cfg.high_temp - cfg.low_temp, now)

\* --------------------------------------------------- TemperatureInterpolator

\* (double)(temp_stop - temp_start) * time_pos converted to int (main.c:315)
temp_pos(temp_start, temp_stop, time_pos) ==
  TruncDiv((temp_stop - temp_start) * time_pos.num, time_pos.den)

interpolate_temperature_swapped(now, start, stop, temp_start, temp_stop) ==
  temp_stop - temp_pos(temp_start, temp_stop, clamp(now - start, stop - start))

interpolate_temperature_from_stop(now, start, stop, temp_start, temp_stop) ==
  temp_stop + temp_pos(temp_start, temp_stop, clamp(now - start, stop - start))

\* interpolate_temperature (main.c:313-317); called with start <= now < stop
interpolate_temperature(now, start, stop, temp_start, temp_stop) ==
  temp_start + temp_pos(temp_start, temp_stop, clamp(now - start, stop - start))

\* get_temperature (main.c:319-331)
get_temperature(sun, cfg, now) ==
  IF now < sun.dawn THEN cfg.low_temp
  ELSE IF now < sun.sunrise
    THEN interpolate_temperature(now, sun.dawn, sun.sunrise, cfg.low_temp, cfg.high_temp)
  ELSE IF now < sun.sunset THEN cfg.high_temp
  ELSE IF now < sun.dusk
    THEN interpolate_temperature(now, sun.sunset, sun.dusk, cfg.high_temp, cfg.low_temp)
  ELSE cfg.low_temp

\* update_timer (main.c:333-349): the deadline it computes and the assertion
\* that failed ("" when the timer was set)
timer_deadline(sun, dawn_step, dusk_step, now) ==
  IF now < sun.dawn THEN sun.dawn
  ELSE IF now < sun.sunrise THEN now + dawn_step
  ELSE IF now < sun.sunset THEN sun.sunset
  ELSE now + dusk_step

update_timer(sun, dawn_step, dusk_step, now) ==
  IF ~(now < sun.dusk) THEN [deadline |-> 0, abort |-> "update_timer_now"]
  ELSE [deadline |-> timer_deadline(sun, dawn_step, dusk_step, now),
        abort |-> IF timer_deadline(sun, dawn_step, dusk_step, now) > now
                    THEN "" ELSE "update_timer_deadline"]

\* ---------------------------------------------------------- GammaRampBuilder

\* 64-bit products, which the levels of a gamma of 2 need, as two limbs of 16
\* bits: the number hi * 65536 + lo
BigSquare(v) ==
  [hi |-> (v \div 256) * (v \div 256) + (2 * (v \div 256) * (v % 256)) \div 256
            + (((2 * (v \div 256) * (v % 256)) % 256) * 256 + (v % 256) * (v % 256)) \div 65536,
   lo |-> (((2 * (v \div 256) * (v % 256)) % 256) * 256 + (v % 256) * (v % 256)) % 65536]

BigTimes(b, k) ==
  [hi |-> b.hi * k + (b.lo * k) \div 65536, lo |-> (b.lo * k) % 65536]

BigLeq(a, b) == a.hi < b.hi \/ (a.hi = b.hi /\ a.lo <= b.lo)

\* the largest v of lo..hi with v * v * q <= UINT16_MAX * UINT16_MAX * p, which is
\* UINT16_MAX * sqrt(p / q) converted to an integer (lo satisfies the inequality)
RECURSIVE sqrt_level(_, _, _, _)
sqrt_level(lo, hi, p, q) ==
  IF lo = hi THEN lo
  ELSE IF BigLeq(BigTimes(BigSquare((lo + hi + 1) \div 2), q),
                 BigTimes(BigSquare(UINT16_MAX), p))
    THEN sqrt_level((lo + hi + 1) \div 2, hi, p, q)
    ELSE sqrt_level(lo, (lo + hi + 1) \div 2 - 1, p, q)

\* the gamma set_temperature receives (main.c:252-254, 510): its parameter is an
\* int, so the double of the command line (here in tenths) is converted,
\* truncating toward zero
gamma_param(gamma) == TruncDiv(gamma, 10)

gamma_level_from_end(i, ramp_size, w, gamma) ==
  IF gamma = 0
    THEN (IF (ramp_size - 1 - i) * w = (ramp_size - 1) * 1000 THEN UINT16_MAX ELSE 0)
  ELSE IF gamma = 1
    THEN TruncDiv(UINT16_MAX * (ramp_size - 1 - i) * w, (ramp_size - 1) * 1000)
  ELSE sqrt_level(0, UINT16_MAX, (ramp_size - 1 - i) * w, (ramp_size - 1) * 1000)

\* one entry of a ramp (main.c:245-248):
\* (uint16_t)(UINT16_MAX * pow(val * w, 1.0 / gamma)), val = i / (ramp_size - 1),
\* for w in thousandths, ramp_size >= 2 and gamma one of 0, 1, 2.  With gamma = 0
\* the exponent 1.0 / gamma is +infinity, and pow gives 0 below 1 and 1 at 1.
gamma_level(i, ramp_size, w, gamma) ==
  IF gamma = 0 THEN (IF i * w = (ramp_size - 1) * 1000 THEN UINT16_MAX ELSE 0)
  ELSE IF gamma = 1 THEN TruncDiv(UINT16_MAX * i * w, (ramp_size - 1) * 1000)
  ELSE sqrt_level(0, UINT16_MAX, i * w, (ramp_size - 1) * 1000)

\* fill_gamma_table (main.c:240-250): the table it leaves, r then g then b
fill_gamma_table(ramp_size, rw, gw, bw, gamma) ==
  [k \in 1..(3 * ramp_size) |->
     IF k <= ramp_size THEN gamma_level(k - 1, ramp_size, rw, gamma)
     ELSE IF k <= 2 * ramp_size THEN gamma_level(k - 1 - ramp_size, ramp_size, gw, gamma)
     ELSE gamma_level(k - 1 - 2 * ramp_size, ramp_size, bw, gamma)]

\* what (uint16_t) of a NaN may give: the conversion is undefined, the usual
\* builds give 0 and nothing excludes any other level
NaNLevels == { 0, UINT16_MAX }

\* the tables fill_gamma_table may leave.  With ramp_size = 1 the division
\* (double)i / (ramp_size - 1) of main.c:245 is 0.0 / 0, a NaN, which pow and the
\* product hand on, and each entry is the conversion of a NaN.
fill_gamma_table_outcomes(ramp_size, rw, gw, bw, gamma) ==
  IF ramp_size - 1 = 0 THEN [1..3 -> NaNLevels]
  ELSE { fill_gamma_table(ramp_size, rw, gw, bw, gamma) }

\* the table of a fresh shared file (ftruncate zero-fills it, main.c:111)
ZeroTable(ramp_size) == [k \in 1..(3 * ramp_size) |-> 0]

\* ------------------------------------------------------------ OutputRegistry

\* struct output (main.c:86-97).  gamma_control is TRUE for a non-NULL handle;
\* table_fd is -1 or the descriptor of the shared file; table is the content of
\* that file (<<>> without one); submitted tells whether a set_gamma request was
\* sent for the current shared file.
NewOutput ==
  [gamma_control |-> FALSE, table_fd |-> -1, ramp_size |-> 0, table |-> <<>>,
   submitted |-> FALSE]

\* the descriptor create_gamma_table returns for output id (some descriptor >= 0)
TableFd(id) == 3 + id

ReadyIds_no_fd_check(outs) ==
  { id \in DOMAIN outs : outs[id].gamma_control }

\* the outputs the loop of set_temperature does not skip (main.c:259-261)
ReadyIds(outs) ==
  { id \in DOMAIN outs : ~(~outs[id].gamma_control \/ outs[id].table_fd = -1) }

\* set_temperature (main.c:252-268): every output after the call
push_table(o, w, gamma) ==
  [o EXCEPT !.table = fill_gamma_table(o.ramp_size, w.rw, w.gw, w.bw, gamma_param(gamma)),
            !.submitted = TRUE]

set_temperature(outs, t, gamma) ==
  [id \in DOMAIN outs |->
     IF id \in ReadyIds(outs) THEN push_table(outs[id], calc_whitepoint(t), gamma)
     ELSE outs[id]]

\* the outputs among ids that were sent a ramp for their current shared file
Submitted(outs, ids) == { id \in ids : outs[id].submitted }

\* setup_output (main.c:178-191): the record after the call
setup_output(o, manager) ==
  IF o.gamma_control THEN o
  ELSE IF ~manager THEN o
  ELSE [o EXCEPT !.gamma_control = TRUE]

\* ------------------------------------------------------------------- state

VARIABLES
  pc,                    \* where main is
  exit_status,           \* the status the process ended with (-1 while it runs)
  abort_at,              \* the assertion that failed, "" if none
  config,                \* ctx.config
  gamma,                 \* main's gamma (option -g), in tenths
  sun,                   \* ctx.sun
  dawn_step_time,        \* ctx.dawn_step_time
  dusk_step_time,        \* ctx.dusk_step_time
  new_output,            \* ctx.new_output
  outputs,               \* ctx.outputs: output id -> struct output
  gamma_control_manager, \* TRUE once the manager global is bound
  timer_armed,           \* the one-shot timer is set and has not expired
  deadline,              \* the deadline update_timer computed last
  timer_fired,           \* the flag of timer_signal
  clock,                 \* the time of day the next get_time_sec returns
  now, temp, old_temp,   \* main's locals
  ticks,                 \* timer expiries so far
  announced,             \* output globals the compositor has announced
  sub,                   \* outputs sent set_gamma by main's last step
  resent,                \* those of sub that had been sent a ramp before
  last_body,             \* what main's last step did
  out_event,             \* an output was added, removed or sized since the last tick
  failed_ids,            \* outputs whose capability has failed
  mapped,                \* outputs a table of which is mapped into the process
  ds_log,                \* kinds of Display Service requests made so far
  unflushed,             \* requests are queued that were not written to the socket
  shm_table,             \* shared-buffer specification: the shared file
  shm_off,               \*   its file offset (shared with the compositor)
  shm_wr,                \*   fill_gamma_table's position, 0 when not running
  shm_temp,              \*   the temperature being pushed
  shm_wire,              \*   set_gamma requests sent and not yet received
  shm_rd,                \*   what the compositor has read of the request it handles
  shm_reading,           \*   the compositor is handling a request
  shm_pushed,            \*   the temperatures pushed so far
  shm_seen,              \*   the tables the compositor has read
  wp                     \* ramp specification: rw, gw, bw of set_temperature

progvars == <<pc, exit_status, abort_at, config, gamma, sun, dawn_step_time, dusk_step_time,
              new_output, outputs, gamma_control_manager, timer_armed, deadline,
              timer_fired, clock, now, temp, old_temp, ticks, announced, sub,
              resent, last_body, out_event, failed_ids, mapped, ds_log, unflushed>>
shmvars == <<shm_table, shm_off, shm_wr, shm_temp, shm_wire, shm_rd, shm_reading,
             shm_pushed, shm_seen>>
fnvars == <<wp>>
vars == <<progvars, shmvars, fnvars>>

schedvars == <<sun, dawn_step_time, dusk_step_time, timer_armed, deadline, timer_fired,
               clock, now, temp, old_temp, ticks>>
ghostvars == <<sub, resent, last_body>>

\* the white point of a temperature of 0 K: set_temperature has not run
NoWhitepoint == [rw |-> 0, gw |-> 0, bw |-> 0]

ShmIdle ==
  /\ shm_table = <<>> /\ shm_off = 0 /\ shm_wr = 0 /\ shm_temp = 0
  /\ shm_wire = 0 /\ shm_rd = <<>> /\ shm_reading = FALSE
  /\ shm_pushed = {} /\ shm_seen = {}

\* the state when main is entered (main.c:417-428; statics are zero)
Init ==
  /\ pc = "start" /\ exit_status = -1 /\ abort_at = ""
  /\ config \in Configs
  /\ gamma = DefaultGamma
  /\ sun = ZeroSun /\ dawn_step_time = 0 /\ dusk_step_time = 0
  /\ new_output = FALSE /\ outputs = <<>> /\ gamma_control_manager = FALSE
  /\ timer_armed = FALSE /\ deadline = 0 /\ timer_fired = FALSE
  /\ clock \in StartTimes
  /\ now = 0 /\ temp = 0 /\ old_temp = 0 /\ ticks = 0
  /\ announced = {} /\ sub = {} /\ resent = {} /\ last_body = "none"
  /\ out_event = FALSE
  /\ failed_ids = {} /\ mapped = {} /\ ds_log = {}
  /\ unflushed = FALSE
  /\ ShmIdle
  /\ wp = NoWhitepoint

\* ------------------------------------------------------------ main: startup

\* main.c:448-481: the options are parsed and high_temp = low_temp is refused
\* with return -1; nothing else has run yet
main_validate_unchecked ==
  /\ pc = "start"
  /\ pc' = "connect"
  /\ UNCHANGED <<exit_status, abort_at, config, gamma, new_output, outputs,
                 gamma_control_manager, announced, out_event, failed_ids, mapped,
                 ds_log, unflushed, schedvars, ghostvars, shmvars, fnvars>>

main_validate ==
  /\ pc = "start"
  /\ IF config.high_temp = config.low_temp
       THEN pc' = "exited" /\ exit_status' = EXIT_MINUS1
       ELSE pc' = "connect" /\ UNCHANGED exit_status
  /\ UNCHANGED <<abort_at, config, gamma, new_output, outputs, gamma_control_manager,
                 announced, out_event, failed_ids, mapped, ds_log, unflushed, schedvars,
                 ghostvars, shmvars, fnvars>>

\* main.c:483-491: wl_display_connect, which may fail (return -1), then
\* wl_display_get_registry and the first roundtrip, which writes its requests
\* before it reads
main_connect ==
  /\ pc = "connect"
  /\ \E ok \in BOOLEAN :
       IF ok
       THEN /\ pc' = "roundtrip1"
            /\ ds_log' = ds_log \cup {"connect", "get_registry"}
            /\ unflushed' = FALSE
            /\ UNCHANGED exit_status
       ELSE /\ pc' = "exited"
            /\ exit_status' = EXIT_MINUS1
            /\ ds_log' = ds_log \cup {"connect"}
            /\ UNCHANGED unflushed
  /\ UNCHANGED <<abort_at, config, gamma, new_output, outputs, gamma_control_manager,
                 announced, out_event, failed_ids, mapped, schedvars, ghostvars,
                 shmvars, fnvars>>

\* main.c:491-503: the first roundtrip returns; without a manager the program
\* ends with EXIT_FAILURE, else setup_output runs for every output and the
\* second roundtrip starts, which writes the requests queued so far before it
\* reads
main_roundtrip1_done ==
  /\ pc = "roundtrip1"
  /\ IF ~gamma_control_manager
       THEN /\ pc' = "exited" /\ exit_status' = EXIT_FAILURE
            /\ UNCHANGED <<outputs, ds_log, unflushed>>
       ELSE /\ pc' = "roundtrip2"
            /\ outputs' = [id \in DOMAIN outputs |->
                             setup_output(outputs[id], gamma_control_manager)]
            /\ ds_log' = IF \E id \in DOMAIN outputs : ~outputs[id].gamma_control
                           THEN ds_log \cup {"get_gamma_control"} ELSE ds_log
            /\ unflushed' = FALSE
            /\ UNCHANGED exit_status
  /\ UNCHANGED <<abort_at, config, gamma, new_output, gamma_control_manager, announced,
                 out_event, failed_ids, mapped, schedvars, ghostvars, shmvars, fnvars>>

\* main.c:503: the second roundtrip returns
main_roundtrip2_done ==
  /\ pc = "roundtrip2"
  /\ pc' = "startup"
  /\ UNCHANGED <<exit_status, abort_at, config, gamma, new_output, outputs,
                 gamma_control_manager, announced, out_event, failed_ids, mapped,
                 ds_log, unflushed, schedvars, ghostvars, shmvars, fnvars>>

\* main.c:506-513: the startup tick
main_startup_tick ==
  /\ pc = "startup"
  /\ \E r \in { recalc_stops(sun, dawn_step_time, dusk_step_time, config, clock) } :
     \E t \in { get_temperature(r.sun, config, clock) } :
     \E u \in { update_timer(r.sun, r.dawn_step_time, r.dusk_step_time, clock) } :
     \E ran \in { r.abort = "" } :
     \E armed \in { r.abort = "" /\ u.abort = "" } :
        /\ now' = clock
        /\ sun' = r.sun
        /\ dawn_step_time' = r.dawn_step_time
        /\ dusk_step_time' = r.dusk_step_time
        /\ temp' = IF ran THEN t ELSE temp
        /\ outputs' = IF ran THEN set_temperature(outputs, t, gamma) ELSE outputs
        /\ sub' = IF ran THEN ReadyIds(outputs) ELSE {}
        /\ resent' = IF ran THEN Submitted(outputs, ReadyIds(outputs)) ELSE {}
        /\ ds_log' = IF ran /\ ReadyIds(outputs) # {}
                       THEN ds_log \cup {"set_gamma"} ELSE ds_log
        /\ unflushed' = (unflushed \/ (ran /\ ReadyIds(outputs) # {}))
        /\ deadline' = IF ran /\ u.abort # "update_timer_now" THEN u.deadline ELSE deadline
        /\ timer_armed' = armed
        /\ old_temp' = IF armed THEN t ELSE old_temp
        /\ abort_at' = IF ~ran THEN r.abort ELSE u.abort
        /\ pc' = IF armed THEN "dispatch" ELSE "exited"
        /\ exit_status' = IF armed THEN exit_status ELSE EXIT_ABORT
        /\ last_body' = "startup"
        /\ out_event' = FALSE
  /\ UNCHANGED <<config, gamma, new_output, gamma_control_manager, timer_fired, clock,
                 ticks, announced, failed_ids, mapped, shmvars, fnvars>>

\* -------------------------------------------------- Display Service events

\* main is inside wl_display_roundtrip or display_dispatch and events are
\* dispatched.  A roundtrip dispatches until its sync callback is done, and each
\* dispatch flushes the requests queued by the handlers before it, so the answer
\* to a get_gamma_control request made in a roundtrip may be dispatched in it.
EventPc == { "roundtrip1", "roundtrip2", "poll", "poll_epipe", "dispatching" }
AfterEvent ==
  IF pc \in { "poll", "poll_epipe" } THEN "dispatching"
  ELSE IF pc = "poll_out" THEN "dispatch"
  ELSE pc

\* wl_display_roundtrip (main.c:491, 503) dispatches again before its callback
\* is done: the requests the handlers queued are written
roundtrip_flush ==
  /\ pc \in { "roundtrip1", "roundtrip2" }
  /\ unflushed
  /\ unflushed' = FALSE
  /\ UNCHANGED <<pc, exit_status, abort_at, config, gamma, new_output, outputs,
                 gamma_control_manager, announced, out_event, failed_ids, mapped,
                 ds_log, schedvars, ghostvars, shmvars, fnvars>>

\* registry_handle_global for a wl_output (main.c:197-206)
registry_handle_global_output(id) ==
  /\ pc \in EventPc
  /\ id \notin announced
  /\ pc' = AfterEvent
  /\ announced' = announced \cup {id}
  /\ outputs' = [i \in DOMAIN outputs \cup {id} |->
                   IF i = id THEN setup_output(NewOutput, gamma_control_manager)
                   ELSE outputs[i]]
  /\ ds_log' = IF gamma_control_manager
                 THEN ds_log \cup {"get_gamma_control"} ELSE ds_log
  /\ unflushed' = (unflushed \/ gamma_control_manager)
  /\ out_event' = TRUE
  /\ UNCHANGED <<exit_status, abort_at, config, gamma, new_output, gamma_control_manager,
                 failed_ids, mapped, schedvars, ghostvars, shmvars, fnvars>>

\* registry_handle_global for the gamma control manager (main.c:207-211)
registry_handle_global_manager ==
  /\ pc \in EventPc
  /\ ~gamma_control_manager
  /\ pc' = AfterEvent
  /\ gamma_control_manager' = TRUE
  /\ UNCHANGED <<exit_status, abort_at, config, gamma, new_output, outputs, announced,
                 out_event, failed_ids, mapped, ds_log, unflushed, schedvars, ghostvars, shmvars, fnvars>>

\* registry_handle_global for any other interface (main.c:197-211, no branch
\* taken): nothing changes
registry_handle_other ==
  /\ pc \in EventPc
  /\ pc' = AfterEvent
  /\ UNCHANGED <<exit_status, abort_at, config, gamma, new_output, outputs,
                 gamma_control_manager, announced, out_event, failed_ids, mapped,
                 ds_log, unflushed, schedvars, ghostvars, shmvars, fnvars>>

\* registry_handle_global_remove (main.c:214-233) for the name of an output of
\* the list or of a global that is no output: the record with that id, if there
\* is one, leaves the list, its handle is destroyed, its descriptor closed and
\* the record freed; its table stays mapped
registry_handle_global_remove(name) ==
  /\ pc \in EventPc
  /\ name \in DOMAIN outputs \/ name = OtherName
  /\ pc' = AfterEvent
  /\ outputs' = [i \in DOMAIN outputs \ {name} |-> outputs[i]]
  /\ out_event' = (out_event \/ name \in DOMAIN outputs)
  /\ unflushed' = (unflushed \/ (name \in DOMAIN outputs /\ outputs[name].gamma_control))
  /\ UNCHANGED <<exit_status, abort_at, config, gamma, new_output, gamma_control_manager,
                 announced, failed_ids, mapped, ds_log, schedvars, ghostvars,
                 shmvars, fnvars>>

\* gamma_control_handle_gamma_size (main.c:142-157); create_gamma_table may
\* fail, and then the process exits with EXIT_FAILURE
gamma_control_handle_gamma_size(id, ramp_size) ==
  /\ pc \in EventPc
  /\ id \in DOMAIN outputs
  /\ outputs[id].gamma_control
  /\ new_output' = TRUE
  /\ out_event' = TRUE
  /\ \E created \in BOOLEAN :
       IF created
       THEN /\ pc' = AfterEvent
            /\ outputs' = [outputs EXCEPT ![id] =
                 [@ EXCEPT !.ramp_size = ramp_size, !.table_fd = TableFd(id),
                           !.table = ZeroTable(ramp_size), !.submitted = FALSE]]
            /\ mapped' = mapped \cup {id}
            /\ UNCHANGED exit_status
       ELSE /\ pc' = "exited"
            /\ exit_status' = EXIT_FAILURE
            /\ outputs' = [outputs EXCEPT ![id] =
                 [@ EXCEPT !.ramp_size = ramp_size, !.table_fd = -1]]
            /\ UNCHANGED mapped
  /\ UNCHANGED <<abort_at, config, gamma, gamma_control_manager, announced, failed_ids,
                 ds_log, unflushed, schedvars, ghostvars, shmvars, fnvars>>

gamma_control_handle_failed_keeps_fd(id) ==
  /\ pc \in EventPc
  /\ id \in DOMAIN outputs
  /\ outputs[id].gamma_control
  /\ pc' = AfterEvent
  /\ outputs' = [outputs EXCEPT ![id] =
                   [@ EXCEPT !.gamma_control = FALSE]]
  /\ failed_ids' = failed_ids \cup {id}
  /\ unflushed' = TRUE
  /\ UNCHANGED <<exit_status, abort_at, config, gamma, new_output, gamma_control_manager,
                 announced, out_event, mapped, ds_log, schedvars, ghostvars, shmvars, fnvars>>

\* gamma_control_handle_failed (main.c:159-171)
gamma_control_handle_failed(id) ==
  /\ pc \in EventPc
  /\ id \in DOMAIN outputs
  /\ outputs[id].gamma_control
  /\ pc' = AfterEvent
  /\ outputs' = [outputs EXCEPT ![id] =
                   [@ EXCEPT !.gamma_control = FALSE, !.table_fd = -1, !.table = <<>>]]
  /\ failed_ids' = failed_ids \cup {id}
  /\ unflushed' = TRUE
  /\ UNCHANGED <<exit_status, abort_at, config, gamma, new_output, gamma_control_manager,
                 announced, out_event, mapped, ds_log, schedvars, ghostvars, shmvars, fnvars>>

\* --------------------------------------------------------- main: the loop

\* timer_signal (main.c:407-410): the one-shot timer set by set_timer has
\* expired and SIGALRM is delivered, late seconds after the deadline.  A poll
\* that is blocked is interrupted (EINTR, main.c:355-356): display_poll returns
\* 0 and display_dispatch goes on, to flush again after a poll for writability,
\* to read and dispatch after a poll for input; anywhere else only the flag is set.
timer_signal(late) ==
  /\ pc \in { "dispatch", "poll_out", "poll", "poll_epipe", "dispatching" }
  /\ timer_armed
  /\ ticks < MaxTicks
  /\ timer_fired' = TRUE
  /\ timer_armed' = FALSE
  /\ clock' = deadline + late
  /\ ticks' = ticks + 1
  /\ pc' = AfterEvent
  /\ UNCHANGED <<exit_status, abort_at, config, gamma, sun, dawn_step_time, dusk_step_time,
                 new_output, outputs, gamma_control_manager, deadline, now, temp,
                 old_temp, announced, out_event, failed_ids, mapped, ds_log, unflushed,
                 ghostvars, shmvars, fnvars>>

\* display_dispatch up to its poll for input (main.c:361-384): wl_display_flush
\* writes all the requests queued so far and main blocks in poll(POLLIN, -1)
display_dispatch_enter ==
  /\ pc = "dispatch"
  /\ pc' = "poll"
  /\ unflushed' = FALSE
  /\ sub' = {}
  /\ resent' = {}
  /\ last_body' = "none"
  /\ UNCHANGED <<exit_status, abort_at, config, gamma, new_output, outputs,
                 gamma_control_manager, announced, out_event, failed_ids, mapped, ds_log,
                 schedvars, shmvars, fnvars>>

display_flush_eagain_reads ==
  /\ pc = "dispatch"
  /\ unflushed
  /\ pc' = "poll"
  /\ UNCHANGED <<exit_status, abort_at, config, gamma, new_output, outputs,
                 gamma_control_manager, announced, out_event, failed_ids, mapped, ds_log,
                 unflushed, schedvars, ghostvars, shmvars, fnvars>>

\* wl_display_flush could not write everything (-1 with EAGAIN, main.c:368-371):
\* main blocks in poll(POLLOUT, -1)
display_flush_eagain ==
  /\ pc = "dispatch"
  /\ unflushed
  /\ pc' = "poll_out"
  /\ UNCHANGED <<exit_status, abort_at, config, gamma, new_output, outputs,
                 gamma_control_manager, announced, out_event, failed_ids, mapped, ds_log,
                 unflushed, schedvars, ghostvars, shmvars, fnvars>>

\* the socket is writable: display_poll returns 0 and the loop of main.c:367-377
\* calls wl_display_flush again
display_poll_out_ready ==
  /\ pc = "poll_out"
  /\ pc' = "dispatch"
  /\ UNCHANGED <<exit_status, abort_at, config, gamma, new_output, outputs,
                 gamma_control_manager, announced, out_event, failed_ids, mapped, ds_log,
                 unflushed, schedvars, ghostvars, shmvars, fnvars>>

\* wl_display_flush fails with EPIPE, the compositor has closed the connection
\* (main.c:379): display_dispatch does not return but goes on to poll for input
\* and to read what the compositor sent before it closed
display_flush_epipe ==
  /\ pc = "dispatch"
  /\ unflushed
  /\ pc' = "poll_epipe"
  /\ sub' = {}
  /\ resent' = {}
  /\ last_body' = "none"
  /\ UNCHANGED <<exit_status, abort_at, config, gamma, new_output, outputs,
                 gamma_control_manager, announced, out_event, failed_ids, mapped, ds_log,
                 unflushed, schedvars, shmvars, fnvars>>

\* display_dispatch returns -1 on an I/O error: wl_display_flush fails with
\* neither EAGAIN nor EPIPE (main.c:379-382), a poll fails with another error
\* than EINTR (main.c:373-376, 384-387), or wl_display_read_events fails, as it
\* does at the end of a closed connection (main.c:389-391).  The loop ends and
\* main returns EXIT_SUCCESS (main.c:514, 533).
display_dispatch_error ==
  /\ (pc = "dispatch" /\ unflushed) \/ pc \in { "poll_out", "poll", "poll_epipe" }
  /\ pc' = "exited"
  /\ exit_status' = EXIT_SUCCESS
  /\ sub' = {}
  /\ resent' = {}
  /\ last_body' = "none"
  /\ UNCHANGED <<abort_at, config, gamma, new_output, outputs, gamma_control_manager,
                 announced, out_event, failed_ids, mapped, ds_log, unflushed, schedvars,
                 shmvars, fnvars>>

\* display_dispatch returns after wl_display_dispatch_pending (main.c:393)
display_dispatch_return ==
  /\ pc = "dispatching"
  /\ pc' = "body"
  /\ UNCHANGED <<exit_status, abort_at, config, gamma, new_output, outputs,
                 gamma_control_manager, announced, out_event, failed_ids, mapped, ds_log, unflushed,
                 schedvars, ghostvars, shmvars, fnvars>>

main_loop_body_keeps_old_temp ==
  /\ pc = "body"
  /\ out_event' = FALSE
  /\ IF timer_fired
     THEN \E r \in { recalc_stops(sun, dawn_step_time, dusk_step_time, config, clock) } :
          \E u \in { update_timer(r.sun, r.dawn_step_time, r.dusk_step_time, clock) } :
          \E t \in { get_temperature(r.sun, config, clock) } :
          \E ran \in { r.abort = "" } :
          \E armed \in { r.abort = "" /\ u.abort = "" } :
          \E push \in { r.abort = "" /\ u.abort = "" /\ t # old_temp } :
             /\ timer_fired' = FALSE
             /\ now' = clock
             /\ sun' = r.sun
             /\ dawn_step_time' = r.dawn_step_time
             /\ dusk_step_time' = r.dusk_step_time
             /\ deadline' = IF ran /\ u.abort # "update_timer_now"
                              THEN u.deadline ELSE deadline
             /\ timer_armed' = armed
             /\ abort_at' = IF ~ran THEN r.abort ELSE u.abort
             /\ pc' = IF armed THEN "dispatch" ELSE "exited"
             /\ exit_status' = IF armed THEN exit_status ELSE EXIT_ABORT
             /\ temp' = IF armed THEN t ELSE temp
             /\ old_temp' = old_temp
             /\ new_output' = IF push THEN FALSE ELSE new_output
             /\ outputs' = IF push THEN set_temperature(outputs, t, gamma) ELSE outputs
             /\ sub' = IF push THEN ReadyIds(outputs) ELSE {}
             /\ resent' = IF push THEN Submitted(outputs, ReadyIds(outputs)) ELSE {}
             /\ ds_log' = IF push /\ ReadyIds(outputs) # {}
                            THEN ds_log \cup {"set_gamma"} ELSE ds_log
             /\ unflushed' = (unflushed \/ (push /\ ReadyIds(outputs) # {}))
             /\ last_body' = IF push THEN "timer_push" ELSE "timer_idle"
     ELSE /\ pc' = "dispatch"
          /\ new_output' = FALSE
          /\ outputs' = IF new_output THEN set_temperature(outputs, temp, gamma) ELSE outputs
          /\ sub' = IF new_output THEN ReadyIds(outputs) ELSE {}
          /\ resent' = IF new_output THEN Submitted(outputs, ReadyIds(outputs)) ELSE {}
          /\ ds_log' = IF new_output /\ ReadyIds(outputs) # {}
                         THEN ds_log \cup {"set_gamma"} ELSE ds_log
          /\ unflushed' = (unflushed \/ (new_output /\ ReadyIds(outputs) # {}))
          /\ last_body' = IF new_output THEN "new_push" ELSE "idle"
          /\ UNCHANGED <<exit_status, abort_at, schedvars>>
  /\ UNCHANGED <<config, gamma, gamma_control_manager, clock, ticks, announced, failed_ids, mapped,
                 shmvars, fnvars>>

\* the body of the loop (main.c:515-530)
main_loop_body ==
  /\ pc = "body"
  /\ out_event' = FALSE
  /\ IF timer_fired
     THEN \E r \in { recalc_stops(sun, dawn_step_time, dusk_step_time, config, clock) } :
          \E u \in { update_timer(r.sun, r.dawn_step_time, r.dusk_step_time, clock) } :
          \E t \in { get_temperature(r.sun, config, clock) } :
          \E ran \in { r.abort = "" } :
          \E armed \in { r.abort = "" /\ u.abort = "" } :
          \E push \in { r.abort = "" /\ u.abort = "" /\ t # old_temp } :
             /\ timer_fired' = FALSE
             /\ now' = clock
             /\ sun' = r.sun
             /\ dawn_step_time' = r.dawn_step_time
             /\ dusk_step_time' = r.dusk_step_time
             /\ deadline' = IF ran /\ u.abort # "update_timer_now"
                              THEN u.deadline ELSE deadline
             /\ timer_armed' = armed
             /\ abort_at' = IF ~ran THEN r.abort ELSE u.abort
             /\ pc' = IF armed THEN "dispatch" ELSE "exited"
             /\ exit_status' = IF armed THEN exit_status ELSE EXIT_ABORT
             /\ temp' = IF armed THEN t ELSE temp
             /\ old_temp' = IF push THEN t ELSE old_temp
             /\ new_output' = IF push THEN FALSE ELSE new_output
             /\ outputs' = IF push THEN set_temperature(outputs, t, gamma) ELSE outputs
             /\ sub' = IF push THEN ReadyIds(outputs) ELSE {}
             /\ resent' = IF push THEN Submitted(outputs, ReadyIds(outputs)) ELSE {}
             /\ ds_log' = IF push /\ ReadyIds(outputs) # {}
                            THEN ds_log \cup {"set_gamma"} ELSE ds_log
             /\ unflushed' = (unflushed \/ (push /\ ReadyIds(outputs) # {}))
             /\ last_body' = IF push THEN "timer_push" ELSE "timer_idle"
     ELSE /\ pc' = "dispatch"
          /\ new_output' = FALSE
          /\ outputs' = IF new_output THEN set_temperature(outputs, temp, gamma) ELSE outputs
          /\ sub' = IF new_output THEN ReadyIds(outputs) ELSE {}
          /\ resent' = IF new_output THEN Submitted(outputs, ReadyIds(outputs)) ELSE {}
          /\ ds_log' = IF new_output /\ ReadyIds(outputs) # {}
                         THEN ds_log \cup {"set_gamma"} ELSE ds_log
          /\ unflushed' = (unflushed \/ (new_output /\ ReadyIds(outputs) # {}))
          /\ last_body' = IF new_output THEN "new_push" ELSE "idle"
          /\ UNCHANGED <<exit_status, abort_at, schedvars>>
  /\ UNCHANGED <<config, gamma, gamma_control_manager, clock, ticks, announced, failed_ids, mapped,
                 shmvars, fnvars>>

\* ------------------------------------------------------------ specification

Next ==
  \/ main_validate
  \/ main_connect
  \/ main_roundtrip1_done
  \/ main_roundtrip2_done
  \/ main_startup_tick
  \/ roundtrip_flush
  \/ \E id \in OutputIds : registry_handle_global_output(id)
  \/ registry_handle_global_manager
  \/ registry_handle_other
  \/ \E name \in OutputIds \cup {OtherName} : registry_handle_global_remove(name)
  \/ \E id \in OutputIds : \E rs \in RampSizes : gamma_control_handle_gamma_size(id, rs)
  \/ \E id \in OutputIds : gamma_control_handle_failed(id)
  \/ \E late \in Lateness : timer_signal(late)
  \/ display_dispatch_enter
  \/ display_flush_eagain
  \/ display_poll_out_ready
  \/ display_flush_epipe
  \/ display_dispatch_error
  \/ display_dispatch_return
  \/ main_loop_body

Spec == Init /\ [][Next]_vars

\* the scheduler's steps are taken, and an armed timer expires, as long as the
\* process runs; the Display Service owes the program no event, but it reads
\* what the program writes: a flush that is tried again and again completes, and
\* a poll for writability returns; a poll on a closed connection returns at once
\* and the read after it fails
SpecLive ==
  /\ Init
  /\ [][Next]_vars
  /\ WF_vars(main_loop_body)
  /\ SF_vars(display_dispatch_enter)
  /\ WF_vars(display_poll_out_ready)
  /\ WF_vars(pc = "poll_epipe" /\ display_dispatch_error)
  /\ WF_vars(display_dispatch_return)
  /\ WF_vars(\E late \in Lateness : timer_signal(late))

\* ---------------------------------------------------- the shared ramp buffer
\* One ready output of ramp size ShmRampSize: set_temperature writes its table
\* through the mapping entry by entry and then sends set_gamma with the
\* descriptor; the compositor, another process, reads the table from the
\* descriptor when it handles the request.

\* the temperatures pushed: those of a ramp from sunset to dusk
ShmConfig == [high_temp |-> 6500, low_temp |-> 4000, duration |-> 3600]
ShmSun == day_stops(ShmConfig, calc_sun(Day0), Day0)
ShmTemps == { get_temperature(ShmSun, ShmConfig, ShmSun.sunset + d) : d \in {0, 1800, 3600} }

InitShm ==
  /\ pc = "pushing" /\ exit_status = -1 /\ abort_at = ""
  /\ config = ShmConfig
  /\ gamma = DefaultGamma
  /\ sun = ShmSun /\ dawn_step_time = 0 /\ dusk_step_time = 0
  /\ new_output = FALSE /\ outputs = <<>> /\ gamma_control_manager = TRUE
  /\ timer_armed = FALSE /\ deadline = 0 /\ timer_fired = FALSE
  /\ clock = Day0
  /\ now = 0 /\ temp = 0 /\ old_temp = 0 /\ ticks = 0
  /\ announced = {} /\ sub = {} /\ resent = {} /\ last_body = "none"
  /\ out_event = FALSE
  /\ failed_ids = {} /\ mapped = {} /\ ds_log = {}
  /\ unflushed = FALSE
  /\ shm_table = ZeroTable(ShmRampSize) /\ shm_off = 0 /\ shm_wr = 0 /\ shm_temp = 0
  /\ shm_wire = 0 /\ shm_rd = <<>> /\ shm_reading = FALSE
  /\ shm_pushed = {} /\ shm_seen = {}
  /\ wp = NoWhitepoint

\* set_temperature reaches the output with temperature t (main.c:252-263)
shm_fill_begin(t) ==
  /\ pc = "pushing"
  /\ shm_wr = 0
  /\ Cardinality(shm_pushed) < MaxPushes
  /\ t \notin shm_pushed
  /\ shm_temp' = t
  /\ shm_pushed' = shm_pushed \cup {t}
  /\ shm_wr' = 1
  /\ UNCHANGED <<progvars, fnvars, shm_table, shm_off, shm_wire, shm_rd, shm_reading, shm_seen>>

\* one iteration of the loop of fill_gamma_table (main.c:244-249): r[i], g[i]
\* and b[i] are stored for i = shm_wr - 1
shm_fill_step ==
  /\ pc = "pushing"
  /\ shm_wr \in 1..ShmRampSize
  /\ \E w \in { calc_whitepoint(shm_temp) } :
     \E full \in { fill_gamma_table(ShmRampSize, w.rw, w.gw, w.bw, gamma_param(gamma)) } :
       shm_table' = [k \in 1..(3 * ShmRampSize) |->
                       IF (k - 1) % ShmRampSize = shm_wr - 1 THEN full[k] ELSE shm_table[k]]
  /\ shm_wr' = shm_wr + 1
  /\ UNCHANGED <<progvars, fnvars, shm_off, shm_temp, shm_wire, shm_rd, shm_reading,
                 shm_pushed, shm_seen>>

\* lseek(table_fd, 0, SEEK_SET) and set_gamma (main.c:264-266); the offset
\* belongs to the open file, which the compositor shares, and lseek waits for
\* a read in progress on it
shm_submit ==
  /\ pc = "pushing"
  /\ shm_wr = ShmRampSize + 1
  /\ ~shm_reading
  /\ shm_off' = 0
  /\ shm_wire' = shm_wire + 1
  /\ shm_wr' = 0
  /\ UNCHANGED <<progvars, fnvars, shm_table, shm_temp, shm_rd, shm_reading, shm_pushed,
                 shm_seen>>

\* the compositor handles a set_gamma request: it starts to read the table
\* from the descriptor, at the file's offset
shm_receive ==
  /\ shm_wire > 0
  /\ ~shm_reading
  /\ shm_wire' = shm_wire - 1
  /\ shm_reading' = TRUE
  /\ shm_rd' = <<>>
  /\ UNCHANGED <<progvars, fnvars, shm_table, shm_off, shm_wr, shm_temp, shm_pushed, shm_seen>>

\* the compositor's read copies the next entry of the file
shm_read_entry ==
  /\ shm_reading
  /\ shm_off + Len(shm_rd) < 3 * ShmRampSize
  /\ shm_rd' = Append(shm_rd, shm_table[shm_off + Len(shm_rd) + 1])
  /\ UNCHANGED <<progvars, fnvars, shm_table, shm_off, shm_wr, shm_temp, shm_wire,
                 shm_reading, shm_pushed, shm_seen>>

\* the read returns at the end of the file, with what it copied
shm_read_done ==
  /\ shm_reading
  /\ shm_off + Len(shm_rd) = 3 * ShmRampSize
  /\ shm_off' = 3 * ShmRampSize
  /\ shm_seen' = shm_seen \cup {shm_rd}
  /\ shm_reading' = FALSE
  /\ shm_rd' = <<>>
  /\ UNCHANGED <<progvars, fnvars, shm_table, shm_wr, shm_temp, shm_wire, shm_pushed>>

NextShm ==
  \/ \E t \in ShmTemps : shm_fill_begin(t)
  \/ shm_fill_step
  \/ shm_submit
  \/ shm_receive
  \/ shm_read_entry
  \/ shm_read_done

SpecShm == InitShm /\ [][NextShm]_vars

\* ------------------------------------------------- the temperature function
\* get_temperature alone, evaluated second by second across the stops of one
\* stored schedule: temp is its value at now, old_temp its value one second
\* before.

\* the offsets calc_sun hands to recalc_stops for the day (main.c:282)
TempSunOffsets ==
  [dawn |-> 5 * 3600 + 1800, sunrise |-> 6 * 3600, sunset |-> 18 * 3600,
   dusk |-> 18 * 3600 + 1800]

\* the options -T, -t and -d: both orders of the temperatures; ramps of 0, 1, 60
\* and 3600 seconds, the ramp of calc_sun (-1), and a negative duration, which
\* main accepts and which puts dawn after sunrise
TempConfigs ==
  { [high_temp |-> h, low_temp |-> 10500 - h, duration |-> d] :
      h \in {6500, 4000}, d \in {0, 1, 60, 3600, -1, -60} }

\* seconds evaluated in one run
MaxSeconds == 4

\* the instants a run starts from: shortly before each stop, and days after dusk
TempStarts(s) ==
  { s.dawn - 3, s.sunrise - 3, s.sunset - 3, s.dusk - 3, s.dusk + 3 * SecondsPerDay }

InitTemp ==
  /\ pc = "tempfn" /\ exit_status = -1 /\ abort_at = ""
  /\ config \in TempConfigs
  /\ gamma = DefaultGamma
  /\ sun = day_stops(config, TempSunOffsets, Day0)
  /\ dawn_step_time = 0 /\ dusk_step_time = 0
  /\ new_output = FALSE /\ outputs = <<>> /\ gamma_control_manager = FALSE
  /\ timer_armed = FALSE /\ deadline = 0 /\ timer_fired = FALSE
  /\ clock \in TempStarts(sun)
  /\ now = 0 /\ temp = 0 /\ old_temp = 0 /\ ticks = 0
  /\ announced = {} /\ sub = {} /\ resent = {} /\ last_body = "none"
  /\ out_event = FALSE
  /\ failed_ids = {} /\ mapped = {} /\ ds_log = {}
  /\ unflushed = FALSE
  /\ ShmIdle
  /\ wp = NoWhitepoint

\* now = get_time_sec(); temp = get_temperature(&ctx, now), one second after
\* the evaluation before (main.c:507-509)
temp_eval ==
  /\ pc = "tempfn"
  /\ ticks < MaxSeconds
  /\ now' = clock
  /\ clock' = clock + 1
  /\ old_temp' = temp
  /\ temp' = get_temperature(sun, config, clock)
  /\ ticks' = ticks + 1
  /\ UNCHANGED <<pc, exit_status, abort_at, config, gamma, sun, dawn_step_time,
                 dusk_step_time, new_output, outputs, gamma_control_manager,
                 timer_armed, deadline, timer_fired, announced, out_event,
                 failed_ids, mapped, ds_log, unflushed, ghostvars, shmvars, fnvars>>

NextTemp == temp_eval

SpecTemp == InitTemp /\ [][NextTemp]_vars

\* ------------------------------------------------------ the ramp function
\* set_temperature for one ready output: fill_gamma_table alone, for the gamma
\* of the command line, a white point and a ramp size.

\* the largest ramp size the compositor advertises
MaxRampSize == 3

\* the option -g, in tenths: 0.5, 1.0 and 2.2
GammaArgs == { 5, 10, 22 }

\* the weights calc_whitepoint may give, in thousandths
Weights == { 0, 250, 615, 1000 }

InitRamp ==
  /\ pc = "rampfn" /\ exit_status = -1 /\ abort_at = ""
  /\ config = ShmConfig
  /\ gamma \in GammaArgs
  /\ sun = ZeroSun /\ dawn_step_time = 0 /\ dusk_step_time = 0
  /\ new_output = FALSE
  /\ \E rs \in 1..MaxRampSize :
       outputs = [id \in {1} |->
                    [gamma_control |-> TRUE, table_fd |-> TableFd(1), ramp_size |-> rs,
                     table |-> ZeroTable(rs), submitted |-> FALSE]]
  /\ gamma_control_manager = TRUE
  /\ timer_armed = FALSE /\ deadline = 0 /\ timer_fired = FALSE
  /\ clock = Day0
  /\ now = 0 /\ temp = 0 /\ old_temp = 0 /\ ticks = 0
  /\ announced = {1} /\ sub = {} /\ resent = {} /\ last_body = "none"
  /\ out_event = FALSE
  /\ failed_ids = {} /\ mapped = {} /\ ds_log = {}
  /\ unflushed = FALSE
  /\ ShmIdle
  /\ wp \in [rw : Weights, gw : Weights, bw : Weights]

\* fill_gamma_table and set_gamma for the output (main.c:262-266)
ramp_fill ==
  /\ pc = "rampfn"
  /\ pc' = "rampdone"
  /\ \E tb \in fill_gamma_table_outcomes(outputs[1].ramp_size, wp.rw, wp.gw, wp.bw,
                                         gamma_param(gamma)) :
       outputs' = [outputs EXCEPT ![1] = [@ EXCEPT !.table = tb, !.submitted = TRUE]]
  /\ sub' = {1}
  /\ UNCHANGED <<exit_status, abort_at, config, gamma, new_output,
                 gamma_control_manager, announced, out_event, failed_ids, mapped, ds_log, unflushed,
                 schedvars, resent, last_body, shmvars, fnvars>>

NextRamp == ramp_fill

SpecRamp == InitRamp /\ [][NextRamp]_vars

\* ------------------------------------------------------------------ claims

\* recalc_stops has been called at least once
Ticked == now # 0

\* the table set_temperature writes for output record o at temperature t
TableAt(o, t) ==
  fill_gamma_table(o.ramp_size, calc_whitepoint(t).rw, calc_whitepoint(t).gw,
                   calc_whitepoint(t).bw, gamma_param(gamma))

\* C1: after every call of recalc_stops the stored dusk is strictly greater than
\* the now it was called with, so neither assert(dusk > now) nor assert(now < dusk)
\* fails.
C1_DuskAfterNow == Ticked => (sun.dusk > now /\ abort_at # "recalc_stops")

\* the temperature t is within one kelvin of the point num/den of the way from a to b
NearLerp(t, a, b, num, den) ==
  /\ Abs((t - a) * den - (b - a) * num) <= den
  /\ (IF a <= b THEN a <= t /\ t <= b ELSE b <= t /\ t <= a)

\* C2: for stops in order and now < dusk, get_temperature gives low_temp before
\* dawn, the interpolation from low_temp to high_temp between dawn and sunrise,
\* high_temp between sunrise and sunset, and the interpolation from high_temp to
\* low_temp between sunset and dusk; with 6500 K, 4000 K and a ramp of 3600 s
\* the temperature at sunset + 1800 is exactly 5250.
C2_TemperatureByPhase ==
  (/\ Ticked /\ abort_at = ""
   /\ sun.dawn <= sun.sunrise /\ sun.sunrise <= sun.sunset /\ sun.sunset <= sun.dusk
   /\ now < sun.dusk)
  => /\ now < sun.dawn => temp = config.low_temp
     /\ (sun.dawn <= now /\ now < sun.sunrise)
          => NearLerp(temp, config.low_temp, config.high_temp,
                      now - sun.dawn, sun.sunrise - sun.dawn)
     /\ (sun.sunrise <= now /\ now < sun.sunset) => temp = config.high_temp
     /\ (sun.sunset <= now /\ now < sun.dusk)
          => NearLerp(temp, config.high_temp, config.low_temp,
                      now - sun.sunset, sun.dusk - sun.sunset)
     /\ (/\ config.high_temp = 6500 /\ config.low_temp = 4000
         /\ sun.dusk - sun.sunset = 3600 /\ now = sun.sunset + 1800)
          => temp = 5250

\* C2 witness: the tick half way down the ramp of 3600 s
C2_HalfwayDown ==
  /\ Ticked /\ abort_at = ""
  /\ config.high_temp = 6500 /\ config.low_temp = 4000
  /\ sun.dusk - sun.sunset = 3600
  /\ now = sun.sunset + 1800
  /\ temp = 5250

\* C3: a loop iteration that observes the same now as the tick before it, with
\* no output added, removed or sized in between, sends no set_gamma request.
C3_SecondTickSilent ==
  [][(pc = "body" /\ pc' # "body" /\ now' = now /\ ~out_event) => sub' = {}]_vars

\* C4: after a loop iteration every ready output has been sent the ramp of the
\* current temperature: an output sized during the dispatch before it is never
\* left waiting for a later wake-up.
C4_ReadyOutputPushed ==
  (pc = "dispatch" /\ last_body \in {"timer_push", "timer_idle", "new_push", "idle"})
  => \A id \in DOMAIN outputs :
       (outputs[id].gamma_control /\ outputs[id].table_fd # -1)
       => (outputs[id].submitted /\ outputs[id].table = TableAt(outputs[id], temp))

\* C5 as claimed: the push made for a newly sized output (temperature unchanged)
\* sends set_gamma only to the outputs that had not been sent a ramp yet; an
\* output that already shows the temperature gets no request.
C5_OnlyNewOutputs ==
  (last_body = "new_push" /\ sub # resent) => resent = {}

\* C5 as amended: the push made for a newly sized output (temperature unchanged)
\* sends the ramp of the current temperature to every output that has a
\* capability handle and a buffer, those already showing it included, and to
\* no other output.
C5_PushesEveryReady ==
  last_body = "new_push"
  => /\ sub = { id \in DOMAIN outputs :
                  outputs[id].gamma_control /\ outputs[id].table_fd # -1 }
     /\ \A id \in sub :
          outputs[id].submitted /\ outputs[id].table = TableAt(outputs[id], temp)
     /\ \A id \in DOMAIN outputs \ sub : outputs[id].table_fd = -1

\* C5 witness: a push for a new output with two ready outputs, one new and one
\* that had its ramp already; both are sent the ramp
C5_TwoOutputsPushed ==
  last_body = "new_push" /\ Cardinality(sub) = 2 /\ Cardinality(resent) = 1

\* C6: once the timer has expired the scheduler performs a tick (which clears
\* timer_fired) or the process ends, whatever the Display Service does.
C6_TickAfterExpiry == timer_fired ~> (~timer_fired \/ pc = "exited")

\* C7: the deadline update_timer computes is strictly greater than now, so
\* assert(deadline > now) never fails.
C7_DeadlineAfterNow ==
  (Ticked /\ abort_at \notin {"recalc_stops", "div_zero", "update_timer_now"})
  => (deadline > now /\ abort_at # "update_timer_deadline")

\* C8: an output whose capability has failed keeps a NULL handle (the capability
\* is never requested again) and no push sends set_gamma to it.
C8_FailedStaysUnmanaged ==
  /\ \A id \in failed_ids \cap DOMAIN outputs : ~outputs[id].gamma_control
  /\ sub \cap failed_ids = {}

\* C9: with high_temp = low_temp the program ends with a nonzero status before
\* any Display Service interaction: no connect, no registry request, no
\* capability request, no submission.
C9_InvalidConfigExits ==
  config.high_temp = config.low_temp
  => /\ pc \in {"start", "exited"}
     /\ pc = "exited" => (exit_status # EXIT_SUCCESS /\ exit_status # -1)
     /\ ds_log = {}
     /\ outputs = <<>> /\ ~gamma_control_manager /\ sub = {}

\* C9 witness: the program has ended on the identical temperatures
C9_RefusedRun ==
  config.high_temp = config.low_temp /\ pc = "exited" /\ exit_status = EXIT_MINUS1

\* the complete tables of the pushes made so far
ShmCompleteTables ==
  { fill_gamma_table(ShmRampSize, calc_whitepoint(t).rw, calc_whitepoint(t).gw,
                     calc_whitepoint(t).bw, gamma_param(gamma)) : t \in shm_pushed }

\* C10: every table the compositor reads from the shared buffer is the complete
\* table of exactly one push.
C10_NoTornRead == shm_seen \subseteq ShmCompleteTables

\* the stops are in the order dawn <= sunrise <= sunset <= dusk
StopsInOrder ==
  sun.dawn <= sun.sunrise /\ sun.sunrise <= sun.sunset /\ sun.sunset <= sun.dusk

\* the largest change of an interpolation over len seconds (len > 0) in one
\* second: |high_temp - low_temp| / len, rounded up
InterpolationStep(len) ==
  (Abs(config.high_temp - config.low_temp) + len - 1) \div len

\* temp and old_temp are the temperatures at now and at now - 1
TwoEvaluated == pc = "tempfn" /\ ticks >= 2

\* C11 as claimed: for stops in order, ramps of length zero included, the
\* temperature is low_temp at dawn, high_temp at sunrise and at sunset and
\* low_temp at dusk, and at each of the four stops it differs from the
\* temperature one second before by at most one step of the interpolation (by
\* nothing where the ramp has no length).
C11_ContinuousAtStops ==
  (TwoEvaluated /\ StopsInOrder)
  => /\ now = sun.dawn => temp = config.low_temp
     /\ now = sun.sunrise => temp = config.high_temp
     /\ now = sun.sunset => temp = config.high_temp
     /\ now = sun.dusk => temp = config.low_temp
     /\ now \in {sun.dawn, sun.sunrise}
          => Abs(temp - old_temp)
               <= (IF sun.dawn < sun.sunrise
                     THEN InterpolationStep(sun.sunrise - sun.dawn) ELSE 0)
     /\ now \in {sun.sunset, sun.dusk}
          => Abs(temp - old_temp)
               <= (IF sun.sunset < sun.dusk
                     THEN InterpolationStep(sun.dusk - sun.sunset) ELSE 0)

\* C11 as amended: for stops in order with ramps of positive length (dawn <
\* sunrise, sunset < dusk) the temperature is low_temp at dawn, high_temp at
\* sunrise and at sunset and low_temp at dusk, and at each stop it differs from
\* the temperature one second before by at most |high_temp - low_temp| / length
\* of the ramp, rounded up.  With a ramp of length zero the temperature jumps:
\* it is low_temp one second before dawn = sunrise and high_temp at it,
\* high_temp one second before sunset = dusk and low_temp at it.
C11_ContinuousOnRamps ==
  (TwoEvaluated /\ StopsInOrder)
  => /\ (sun.dawn < sun.sunrise /\ sun.sunset < sun.dusk)
          => /\ now = sun.dawn => temp = config.low_temp
             /\ now = sun.sunrise => temp = config.high_temp
             /\ now = sun.sunset => temp = config.high_temp
             /\ now = sun.dusk => temp = config.low_temp
             /\ now \in {sun.dawn, sun.sunrise}
                  => Abs(temp - old_temp) <= InterpolationStep(sun.sunrise - sun.dawn)
             /\ now \in {sun.sunset, sun.dusk}
                  => Abs(temp - old_temp) <= InterpolationStep(sun.dusk - sun.sunset)
     /\ (sun.dawn = sun.sunrise /\ now = sun.dawn)
          => (old_temp = config.low_temp /\ temp = config.high_temp)
     /\ (sun.sunset = sun.dusk /\ now = sun.dusk)
          => (old_temp = config.high_temp /\ temp = config.low_temp)

\* C11 witness: the evaluation at dusk, the end of a ramp of 60 s, one step
\* after the last temperature of the ramp
C11_RampEndsAtDusk ==
  /\ TwoEvaluated /\ StopsInOrder
  /\ sun.dusk - sun.sunset = 60 /\ sun.sunrise - sun.dawn = 60
  /\ now = sun.dusk
  /\ temp = config.low_temp /\ old_temp # temp

\* entry i (from 0) of channel c (0 red, 1 green, 2 blue) of the table of record o
Level(o, c, i) == o.table[c * o.ramp_size + i + 1]

\* C12: for every white point with weights in [0, 1], every gamma of the command
\* line (0.5, 1.0 and 2.2 among them) and every ramp size of at least 2, each
\* channel of the table fill_gamma_table writes is non-decreasing along the
\* index, starts with 0 and holds no level above UINT16_MAX.
C12_RampMonotone ==
  (pc = "rampdone" /\ outputs[1].ramp_size >= 2)
  => \A c \in 0..2 :
       /\ Level(outputs[1], c, 0) = 0
       /\ \A i \in 0..(outputs[1].ramp_size - 1) :
            Level(outputs[1], c, i) \in 0..UINT16_MAX
       /\ \A i \in 0..(outputs[1].ramp_size - 2) :
            Level(outputs[1], c, i) <= Level(outputs[1], c, i + 1)

\* C12 witness: the table for -g 2.2 (the int conversion makes it 2), ramp size 3
\* and a white point below 1 on green and blue; the red channel rises over both steps
C12_RampOfGammaTwo ==
  /\ pc = "rampdone" /\ gamma = 22 /\ outputs[1].ramp_size = 3
  /\ wp = [rw |-> 1000, gw |-> 615, bw |-> 250]
  /\ Level(outputs[1], 0, 0) = 0
  /\ Level(outputs[1], 0, 1) = 46340
  /\ Level(outputs[1], 0, 2) = UINT16_MAX
  /\ Level(outputs[1], 2, 2) = 32767

\* C13: with a ramp size of 1 no division by zero takes place and the push
\* writes 0 to the one entry of each channel.
C13_SingleEntryZero ==
  (pc = "rampdone" /\ outputs[1].ramp_size = 1)
  => \A c \in 0..2 : Level(outputs[1], c, 0) = 0

\* the step is a tick: recalc_stops is called, with the time clock
TickStep == pc = "startup" \/ (pc = "body" /\ timer_fired)

\* C14: recalc_stops called with now < dusk leaves dawn, sunrise, sunset, dusk,
\* dawn_step_time and dusk_step_time as they are; the schedule changes only in
\* a call with now >= the dusk computed before.
C14_LazyRecalc ==
  [][/\ (TickStep /\ clock < sun.dusk)
          => UNCHANGED <<sun, dawn_step_time, dusk_step_time>>
     /\ <<sun, dawn_step_time, dusk_step_time>>' # <<sun, dawn_step_time, dusk_step_time>>
          => (TickStep /\ clock >= sun.dusk)]_vars

\* C14 witness: a timer tick between dawn and dusk of the stored schedule; a
\* schedule computed by this tick would have its dawn after now
C14_TickWithinSchedule ==
  /\ last_body \in {"timer_push", "timer_idle"} /\ abort_at = ""
  /\ sun.dawn <= now /\ now < sun.dusk

\* C15: right after every call of set_temperature for all ready outputs, the one
\* at startup as well as those of the loop, new_output is false (no gamma_size
\* event can have been dispatched since: main has not yet entered
\* display_dispatch again).
C15_PushClearsNewOutput ==
  (pc = "dispatch" /\ last_body \in {"startup", "timer_push", "new_push"})
  => ~new_output

\* C16: when a removal notice is handled, the record of that name is gone from
\* the list and every other record is as it was (for a name that is not in the
\* list nothing changes); and for every output that was removed, no push sends
\* set_gamma to it and its buffer is released: no table of it stays mapped.
C16_RemovedOutputReleased ==
  [][/\ \A name \in OutputIds \cup {OtherName} :
          registry_handle_global_remove(name)
          => /\ name \notin DOMAIN outputs'
             /\ DOMAIN outputs' = DOMAIN outputs \ {name}
             /\ \A i \in DOMAIN outputs' : outputs'[i] = outputs[i]
             /\ UNCHANGED <<new_output, gamma_control_manager, schedvars>>
     /\ \A id \in announced' \ DOMAIN outputs' : id \notin sub' /\ id \notin mapped']_vars

\* C17: in every state every record with a buffer (table_fd # -1) has a
\* capability handle, and the outputs set_temperature has just sent set_gamma to
\* are records with both a handle and a buffer.
C17_BufferOnlyWithHandle ==
  /\ \A id \in DOMAIN outputs :
       outputs[id].table_fd # -1 => outputs[id].gamma_control
  /\ \A id \in sub :
       /\ id \in DOMAIN outputs
       /\ outputs[id].gamma_control /\ outputs[id].table_fd # -1

\* C17 witness: a push that reached one output while the other, whose
\* capability failed after it had been sized, has neither handle nor buffer
C17_PushBesideFailedOutput ==
  /\ sub # {}
  /\ \E id \in (failed_ids \cap mapped \cap DOMAIN outputs) \ sub :
       ~outputs[id].gamma_control /\ outputs[id].table_fd = -1

\* main is inside display_dispatch, before it dispatches
InDisplayDispatch == pc \in { "dispatch", "poll_out", "poll", "poll_epipe" }

\* C18 as claimed: display_dispatch polls for inbound events only when no
\* outbound data is unflushed; after a flush that could not complete (EAGAIN) it
\* waits for writability and flushes again; a poll interrupted by the timer
\* signal (EINTR) does not end the process; and after any other I/O error
\* display_dispatch returns -1 without reading or dispatching, and main returns.
C18_FlushedBeforeRead ==
  [][/\ pc' \in {"poll", "poll_epipe"} => ~unflushed'
     /\ pc = "poll_out" => pc' \in {"poll_out", "dispatch", "exited"}
     /\ (~timer_fired /\ timer_fired') => (pc' # "exited" /\ exit_status' = -1)
     /\ (pc # "exited" /\ pc' = "exited" /\ exit_status' = EXIT_SUCCESS)
          => InDisplayDispatch]_vars

\* C18 as amended: display_dispatch blocks in its poll for inbound events only
\* after a flush that wrote all outbound data, with one exception: a flush that
\* fails with EPIPE does not make display_dispatch return, it goes on, the
\* data still unflushed, to poll and read on the closed connection, and what the
\* compositor sent before closing is dispatched.  After a flush that could not
\* complete (EAGAIN) it waits for writability and flushes again; a poll
\* interrupted by the timer signal (EINTR) does not end the process; any other
\* I/O error makes display_dispatch return -1, and main returns only then.
C18_FlushedOrClosedBeforeRead ==
  [][/\ pc' = "poll" => ~unflushed'
     /\ (pc # "poll_epipe" /\ pc' = "poll_epipe") => (pc = "dispatch" /\ unflushed)
     /\ pc = "poll_epipe" => pc' \in {"poll_epipe", "dispatching", "exited"}
     /\ pc = "poll_out" => pc' \in {"poll_out", "dispatch", "exited"}
     /\ (~timer_fired /\ timer_fired') => (pc' # "exited" /\ exit_status' = -1)
     /\ (pc # "exited" /\ pc' = "exited" /\ exit_status' = EXIT_SUCCESS)
          => InDisplayDispatch]_vars

\* C18 witness: main waits for writability with the set_gamma requests of the
\* push before it still queued and the timer armed
C18_WaitsForWritability ==
  pc = "poll_out" /\ unflushed /\ sub # {} /\ timer_armed

\* the smaller and the larger of the two configured temperatures
MinTemp == IF config.low_temp <= config.high_temp THEN config.low_temp ELSE config.high_temp
MaxTemp == IF config.low_temp <= config.high_temp THEN config.high_temp ELSE config.low_temp

\* C19: every temperature get_temperature returns lies between the smaller and
\* the larger of low_temp and high_temp, for every now and every stored
\* schedule: stops in and out of order, now days after dusk, high_temp below
\* low_temp.
C19_TemperatureInRange ==
  (pc = "tempfn" /\ ticks >= 1)
  => (MinTemp <= temp /\ temp <= MaxTemp)

\* C19 witness: with high_temp below low_temp, a temperature strictly between
\* the two on the way down from sunset to dusk
C19_InvertedRampValue ==
  /\ pc = "tempfn" /\ ticks >= 1
  /\ config.high_temp < config.low_temp
  /\ sun.sunset < now /\ now < sun.dusk
  /\ config.high_temp < temp /\ temp < config.low_temp

\* C20: whenever main is at the top of a loop iteration or inside it before
\* the body, temp equals old_temp, the temperature of the most recent push made
\* for a temperature; and right after any push every output with a handle and
\* a buffer holds the ramp of that one temperature.
C20_TempIsOldTemp ==
  /\ pc \in {"dispatch", "poll_out", "poll", "poll_epipe", "dispatching", "body"}
       => temp = old_temp
  /\ (pc = "dispatch" /\ last_body \in {"startup", "timer_push", "new_push"})
       => \A id \in ReadyIds(outputs) :
            outputs[id].submitted /\ outputs[id].table = TableAt(outputs[id], old_temp)

\* C20 witness: a push for a new output in the middle of a ramp, after a timer
\* tick: the output is sent the temperature of the ramp the tick pushed
C20_NewOutputGetsRampTemperature ==
  /\ pc = "dispatch" /\ last_body = "new_push" /\ sub # {}
  /\ ticks >= 1
  /\ temp # config.low_temp /\ temp # config.high_temp
  /\ \A id \in sub : outputs[id].table = TableAt(outputs[id], old_temp)

====
